---- MODULE Spec2Model ----
(***************************************************************************)
(* kernel_copy_to_user_armv6v7: the forward copy template of               *)
(* copy_user_template_armv6v7.S instantiated with the accessor macros of   *)
(* copy_to_user_armv6v7.S (COPY_FUNCTION_TO_USER, ARM mode, PLD enabled,   *)
(* write alignment disabled).  The machine state is the ARM register file, *)
(* the condition flags, the stack and the bytes of memory written so far.  *)
(* Every step begins with at most one store instruction and runs to just   *)
(* before the next store or the next label.                                *)
(***************************************************************************)
EXTENDS Integers, Sequences, FiniteSets, TLC

(* ---- program constants ------------------------------------------------ *)
SMALL_SIZE_THRESHOLD == 7
FAST_PATH_SIZE_THRESHOLD == 95
PREFETCH_DISTANCE == 3
PAGE_SZ == 4096
CacheGeometries == {32, 64}

(* ---- bounds of the model ---------------------------------------------- *)
MaxLen == 70
BigBlocks == 2
BigLens == {96, 97, 103, 127, 128, 131} \cup
           {32 * b + t : b \in {5, 8, 10, 10 + BigBlocks}, t \in {0, 30}}
Lengths == (0 .. MaxLen) \cup BigLens
\* offsets of the source inside its cache line: at the start and near the end
SrcLineOffsets == {0, 60}
SrcBase == PAGE_SZ
DstBase == 2 * PAGE_SZ + 128

(* ---- 32-bit arithmetic on two's complement values ---------------------- *)
MinInt == (-2147483647) - 1
Low31(x) == IF x >= 0 THEN x ELSE (x + 2147483647) + 1

RECURSIVE AndNat(_, _)
AndNat(a, b) ==
  IF a = 0 \/ b = 0 THEN 0
  ELSE 2 * AndNat(a \div 2, b \div 2) + (IF a % 2 = 1 /\ b % 2 = 1 THEN 1 ELSE 0)

RECURSIVE OrNat(_, _)
OrNat(a, b) ==
  IF a = 0 THEN b
  ELSE IF b = 0 THEN a
  ELSE 2 * OrNat(a \div 2, b \div 2) + (IF a % 2 = 1 \/ b % 2 = 1 THEN 1 ELSE 0)

\* and x, #m  with an immediate 0 <= m < 2^31
And(x, m) == AndNat(Low31(x), m)
\* a bic that clears one bit too few
BicNarrowMask(x, m) == x - And(x, m \div 2)
\* bic x, #m
Bic(x, m) == x - And(x, m)
\* orr x, y
Orr(x, y) ==
  LET o == OrNat(Low31(x), Low31(y))
  IN  IF x < 0 \/ y < 0 THEN (o - 2147483647) - 1 ELSE o
\* logical shift right by 0 < k < 32
Lsr(x, k) ==
  IF x >= 0 THEN x \div (2 ^ k)
  ELSE (Low31(x) \div (2 ^ k)) + 2 ^ (31 - k)
\* logical shift left by 0 < k < 32
Lsl(x, k) ==
  LET low == x % (2 ^ (32 - k))
  IN  IF low >= 2 ^ (31 - k)
      THEN ((low - 2 ^ (32 - k)) * (2 ^ (k - 1))) * 2
      ELSE (low * (2 ^ (k - 1))) * 2
\* carry out of  lsl #k : the last bit shifted out
LslCarry(x, k) == (x \div (2 ^ (32 - k))) % 2 = 1

\* unsigned a >= b on two's complement values
UGe(a, b) ==
  IF a >= 0 /\ b >= 0 THEN a >= b
  ELSE IF a < 0 /\ b < 0 THEN a >= b
  ELSE a < 0

(* ---- condition flags --------------------------------------------------- *)
\* cmp a, b / subs: flags of a - b
SubFlags(a, b) == [n |-> a - b < 0, z |-> a = b, c |-> UGe(a, b), v |-> FALSE]
\* cmn a, b / adds: flags of a + b
AddFlags(a, b) ==
  [n |-> a + b < 0, z |-> a + b = 0,
   c |-> IF a < 0 /\ b < 0 THEN TRUE
         ELSE IF a >= 0 /\ b >= 0 THEN FALSE ELSE a + b >= 0,
   v |-> FALSE]
\* a tst whose Z flag is inverted
TstFlagsInvertedZ(f, res) == [f EXCEPT !.n = res < 0, !.z = res # 0]
\* tst / ands with an unrotated immediate: N and Z from the result, C and V kept
TstFlags(f, res) == [f EXCEPT !.n = res < 0, !.z = res = 0]

Cond(cc, f) ==
  CASE cc = "al" -> TRUE
    [] cc = "eq" -> f.z
    [] cc = "ne" -> ~f.z
    [] cc = "cs" -> f.c
    [] cc = "hi" -> f.c /\ ~f.z
    [] cc = "lt" -> f.n # f.v
    [] cc = "ge" -> f.n = f.v
    [] cc = "gt" -> ~f.z /\ f.n = f.v
    [] cc = "le" -> f.z \/ f.n # f.v

(* ---- state -------------------------------------------------------------- *)
VARIABLES
  L1_CACHE_BYTES,  \* cache line size of the build (32 or 64)
  arg,    \* the call's arguments [dest, src, n]
  pc,     \* position in the template (label, or label and letter)
  idx,    \* position inside an unrolled accessor / jump-table sequence
  pull,   \* the forward_copy_shift instance entered (8, 16, 24), 0 before
  r,      \* register file r0 .. r10, ip, lr
  fl,     \* condition flags n, z, c, v
  stk,    \* words on the stack since entry, top last
  wr,     \* memory bytes written by the call: address -> byte
  plds,   \* addresses of the preload hints issued, in order
  ld,     \* loads issued by the last step: sequence of <<address, bytes>>
  st,     \* store issued by the last step: sequence of <<address, bytes>>
  tier,   \* the tier the dispatcher selected
  ret,    \* the value returned in r0 and the address returned to
  faultK  \* destination offset of the store that faulted, -1 if none

vars == <<L1_CACHE_BYTES, arg, pc, idx, pull, r, fl, stk, wr, plds, ld, st, tier, ret,
          faultK>>

RegNames == {"r0", "r1", "r2", "r3", "r4", "r5", "r6", "r7", "r8", "r9", "r10",
             "ip", "lr"}
\* the caller's register values at entry (r4 - r10 and lr are callee-saved)
CallerRegs ==
  [n \in RegNames |->
     CASE n = "r3" -> 303 [] n = "r4" -> 404 [] n = "r5" -> 505
       [] n = "r6" -> 606 [] n = "r7" -> 707 [] n = "r8" -> 808
       [] n = "r9" -> 909 [] n = "r10" -> 1010 [] n = "ip" -> 1212
       [] n = "lr" -> 1414 [] OTHER -> 0]

(* ---- memory -------------------------------------------------------------- *)
\* content of memory before the call
InitByte(a) == (a * 37 + 11) % 256
Byte(m, a) == IF a \in DOMAIN m THEN m[a] ELSE InitByte(a)
\* ldrb: zero-extended byte
LoadByte(m, a) == Byte(m, a)
\* ldr: little-endian word
LoadWord(m, a) ==
  LET b3 == Byte(m, a + 3)
  IN  Byte(m, a) + 256 * Byte(m, a + 1) + 65536 * Byte(m, a + 2)
        + 16777216 * (IF b3 >= 128 THEN b3 - 256 ELSE b3)
StoreBytes(m, a, bs) ==
  [x \in DOMAIN m \cup (a .. (a + Len(bs) - 1)) |->
     IF x >= a /\ x < a + Len(bs) THEN bs[x - a + 1] ELSE m[x]]
\* strb: the low byte of the register
StoreByte(m, a, v) == StoreBytes(m, a, <<v % 256>>)
\* str: the four bytes of the register, little-endian
StoreWord(m, a, v) ==
  StoreBytes(m, a, <<v % 256, (v \div 256) % 256, (v \div 65536) % 256,
                     (v \div 16777216) % 256>>)

(* ---- stack ---------------------------------------------------------------- *)
\* stmdb sp!, {names}: the lowest register ends at the lowest address (the top)
RECURSIVE PushRegs(_, _, _)
PushRegs(s, rg, names) ==
  IF names = <<>> THEN s
  ELSE Append(PushRegs(s, rg, Tail(names)), rg[Head(names)])
\* ldmfd sp!, {names}: the lowest register is loaded from the top
RECURSIVE PopRegs(_, _, _)
PopRegs(s, rg, names) ==
  IF names = <<>> THEN rg
  ELSE PopRegs(SubSeq(s, 1, Len(s) - 1), [rg EXCEPT ![Head(names)] = s[Len(s)]],
               Tail(names))
PopStack(s, k) == SubSeq(s, 1, Len(s) - k)

(* ---- call entry ------------------------------------------------------------ *)
Init ==
  \E g \in CacheGeometries, n \in Lengths, so \in 0 .. 3, do \in 0 .. 3,
     lo \in SrcLineOffsets, same \in BOOLEAN :
    LET s == SrcBase + lo + so
        d == IF same THEN s ELSE DstBase + do
    IN  /\ same => so = do
        /\ L1_CACHE_BYTES = g
        /\ arg = [dest |-> d, src |-> s, n |-> n]
        /\ pc = "entry"
        /\ idx = 0
        /\ pull = 0
        /\ r = [CallerRegs EXCEPT !["r0"] = d, !["r1"] = s, !["r2"] = n]
        /\ fl = [n |-> FALSE, z |-> FALSE, c |-> FALSE, v |-> FALSE]
        /\ stk = <<>>
        /\ wr = <<>>
        /\ plds = <<>>
        /\ ld = <<>>
        /\ st = <<>>
        /\ tier = "none"
        /\ ret = [r0 |-> 0, to |-> 0]
        /\ faultK = -1

(* ---- accessor macros of copy_to_user_armv6v7.S ----------------------------- *)
\* The abort argument of every accessor is dropped by the macros: no fixup
\* table entry is emitted for any load or store.
\* an ldr1w that reads one word too far
ldr1w_ahead(rg, m, ptr, reg) ==
  [rg EXCEPT ![reg] = LoadWord(m, rg[ptr] + 4), ![ptr] = rg[ptr] + 4]
ldr1w(rg, m, ptr, reg) ==
  [rg EXCEPT ![reg] = LoadWord(m, rg[ptr]), ![ptr] = rg[ptr] + 4]
ldr1b(rg, m, ptr, reg) ==
  [rg EXCEPT ![reg] = LoadByte(m, rg[ptr]), ![ptr] = rg[ptr] + 1]
\* ldmia ptr!, {regs}: ldr2w, ldr4w, ldr8w
RECURSIVE ldmia(_, _, _, _)
ldmia(rg, m, ptr, regs) ==
  IF regs = <<>> THEN rg
  ELSE ldmia(ldr1w(rg, m, ptr, Head(regs)), m, ptr, Tail(regs))
\* a str1w that advances the pointer by two words
str1w_skip(rg, m, ptr, reg) ==
  [r |-> [rg EXCEPT ![ptr] = rg[ptr] + 8],
   wr |-> StoreWord(m, rg[ptr], rg[reg]),
   st |-> << <<rg[ptr], 4>> >>]
str1w(rg, m, ptr, reg) ==
  [r |-> [rg EXCEPT ![ptr] = rg[ptr] + 4],
   wr |-> StoreWord(m, rg[ptr], rg[reg]),
   st |-> << <<rg[ptr], 4>> >>]
str1b(rg, m, ptr, reg) ==
  [r |-> [rg EXCEPT ![ptr] = rg[ptr] + 1],
   wr |-> StoreByte(m, rg[ptr], rg[reg]),
   st |-> << <<rg[ptr], 1>> >>]

\* register lists of the unrolled accessor sequences
Regs8 == <<"r3", "r4", "r5", "r6", "r7", "r8", "ip", "lr">>
TailRegs == <<"r3", "r4", "r5", "r6", "r7", "r8", "lr">>
ShiftRegs == <<"r3", "r4", "r5", "r6", "r7", "r8", "r9", "ip">>

\* the store instruction a step begins with: register, bytes, condition
StoreSite(p, i) ==
  CASE p = "32a" -> [reg |-> "r3", n |-> 4, cc |-> "al"]
    [] p = "32b" -> [reg |-> "ip", n |-> 4, cc |-> "al"]
    [] p = "32c" -> [reg |-> "r3", n |-> 4, cc |-> "ne"]
    [] p = "36a" -> [reg |-> "r3", n |-> 4, cc |-> "ne"]
    [] p = "38a" -> [reg |-> "r3", n |-> 1, cc |-> "ne"]
    [] p = "38b" -> [reg |-> "ip", n |-> 1, cc |-> "cs"]
    [] p = "38c" -> [reg |-> "r3", n |-> 1, cc |-> "cs"]
    [] p = "9a" -> [reg |-> "r4", n |-> 1, cc |-> "gt"]
    [] p = "9b" -> [reg |-> "r4", n |-> 1, cc |-> "ge"]
    [] p = "9c" -> [reg |-> "lr", n |-> 1, cc |-> "al"]
    [] p \in {"4s", "4t", "5s"} -> [reg |-> Regs8[i], n |-> 4, cc |-> "al"]
    [] p = "6s" -> [reg |-> TailRegs[i], n |-> 4, cc |-> "al"]
    [] p = "8a" -> [reg |-> "r3", n |-> 1, cc |-> "ne"]
    [] p = "8b" -> [reg |-> "r4", n |-> 1, cc |-> "cs"]
    [] p = "8c" -> [reg |-> "ip", n |-> 1, cc |-> "cs"]
    [] p = "13s" -> [reg |-> ShiftRegs[i], n |-> 4, cc |-> "al"]
    [] p = "15s" -> [reg |-> "r4", n |-> 4, cc |-> "al"]
StorePcs == {"32a", "32b", "32c", "36a", "38a", "38b", "38c", "9a", "9b", "9c",
             "4s", "4t", "5s", "6s", "8a", "8b", "8c", "13s", "15s"}

\* the leading store of the current step, executed if its condition passes
Store ==
  LET s == StoreSite(pc, idx)
  IN  IF ~Cond(s.cc, fl) THEN [r |-> r, wr |-> wr, st |-> <<>>]
      ELSE IF s.n = 4 THEN str1w(r, wr, "r0", s.reg)
      ELSE str1b(r, wr, "r0", s.reg)

Step(npc, nidx, nr, nfl, nstk, nwr, npl, nld, nst) ==
  /\ pc' = npc
  /\ idx' = nidx
  /\ r' = nr
  /\ fl' = nfl
  /\ stk' = nstk
  /\ wr' = nwr
  /\ plds' = npl
  /\ ld' = nld
  /\ st' = nst
  /\ UNCHANGED <<L1_CACHE_BYTES, arg, ret, faultK>>

\* an exit that drops the saved word and returns the write cursor
exit_keep_cursor(s, rg) ==
  /\ Len(s) >= 1
  /\ pc' = "done"
  /\ r' = rg
  /\ stk' = PopStack(s, 1)
  /\ ret' = [r0 |-> rg["r0"], to |-> rg["lr"]]
  /\ ld' = <<>>
  /\ st' = <<>>
  /\ UNCHANGED <<L1_CACHE_BYTES, arg, idx, fl, plds, faultK>>
\* exit_no_regs: ldr r0, [sp], #4 ; bx lr
exit_no_regs(s, rg) ==
  /\ Len(s) >= 1
  /\ pc' = "done"
  /\ r' = [rg EXCEPT !["r0"] = s[Len(s)]]
  /\ stk' = PopStack(s, 1)
  /\ ret' = [r0 |-> s[Len(s)], to |-> rg["lr"]]
  /\ ld' = <<>>
  /\ st' = <<>>
  /\ UNCHANGED <<L1_CACHE_BYTES, arg, idx, fl, plds, faultK>>

(* ---- dispatch: lines 171 - 180 ---------------------------------------------- *)
\* a dispatch that branches to 36 with blt instead of ble
DispatchBlt(n, r3v) ==
  LET f1 == SubFlags(n, SMALL_SIZE_THRESHOLD)
      f2 == SubFlags(n, FAST_PATH_SIZE_THRESHOLD)
      f3 == IF Cond("le", f2) THEN TstFlags(f2, And(r3v, 3)) ELSE f2
  IN  IF Cond("lt", f1) THEN [to |-> "36", fl |-> f1]
      ELSE IF Cond("ne", f3) THEN [to |-> "37", fl |-> f3]
      ELSE [to |-> "32", fl |-> f3]
\* cmp r2, #SMALL_SIZE_THRESHOLD ; ble 36f ; cmp r2, #FAST_PATH_SIZE_THRESHOLD ;
\* tstle r3, #3 ; bne 37f: the label reached and the flags left
Dispatch(n, r3v) ==
  LET f1 == SubFlags(n, SMALL_SIZE_THRESHOLD)
      f2 == SubFlags(n, FAST_PATH_SIZE_THRESHOLD)
      f3 == IF Cond("le", f2) THEN TstFlags(f2, And(r3v, 3)) ELSE f2
  IN  IF Cond("le", f1) THEN [to |-> "36", fl |-> f1]
      ELSE IF Cond("ne", f3) THEN [to |-> "37", fl |-> f3]
      ELSE [to |-> "32", fl |-> f3]

Entry ==
  /\ pc = "entry"
  /\ LET base == Bic(r["r1"], L1_CACHE_BYTES - 1)
         r3v == Orr(r["r0"], r["r1"])
         d == Dispatch(r["r2"], r3v)
     IN  /\ Step(d.to, 0, [r EXCEPT !["ip"] = base, !["r3"] = r3v], d.fl,
                 PushRegs(stk, r, <<"r0">>), wr, Append(plds, base), <<>>, <<>>)
         /\ tier' = CASE d.to = "37" -> "general" [] d.to = "32" -> "fast"
                      [] OTHER -> tier
  /\ UNCHANGED pull

(* ---- fast path, COPY_FUNCTION_TO_USER: lines 354 - 375 ----------------------- *)
L32 ==
  /\ pc = "32"
  /\ LET r1 == ldmia(r, wr, "r1", <<"r3", "ip">>)
         r2 == [r1 EXCEPT !["r2"] = r1["r2"] - 8]
     IN  Step("32a", 0, r2, fl, stk, wr, plds, << <<r["r1"], 8>> >>, <<>>)
  /\ UNCHANGED <<pull, tier>>

L32a ==
  /\ pc = "32a"
  /\ LET s == Store
     IN  Step("32b", 0, s.r, SubFlags(s.r["r2"], 8), stk, s.wr, plds, <<>>, s.st)
  /\ UNCHANGED <<pull, tier>>

L32b ==
  /\ pc = "32b"
  /\ LET s == Store
         f == TstFlags(fl, And(s.r["r2"], 4))
         ldc == Cond("ne", f)
         r1 == IF ldc THEN ldr1w(s.r, s.wr, "r1", "r3") ELSE s.r
     IN  IF Cond("ge", fl)
         THEN Step("32", 0, s.r, fl, stk, s.wr, plds, <<>>, s.st)
         ELSE Step("32c", 0, r1, f, stk, s.wr, plds,
                   IF ldc THEN << <<s.r["r1"], 4>> >> ELSE <<>>, s.st)
  /\ UNCHANGED <<pull, tier>>

L32c ==
  /\ pc = "32c"
  /\ LET s == Store
         f == TstFlags(fl, And(s.r["r2"], 3))
     IN  Step(IF Cond("ne", f) THEN "38" ELSE "34x", 0, s.r, f, stk, s.wr, plds,
              <<>>, s.st)
  /\ UNCHANGED <<pull, tier>>

L34x ==
  /\ pc = "34x"
  /\ exit_no_regs(stk, r)
  /\ UNCHANGED <<wr, pull, tier>>

(* ---- tiny tier: lines 377 - 422 ----------------------------------------------- *)
L36 ==
  /\ pc = "36"
  /\ LET f1 == TstFlags(fl, And(r["r3"], 3))
         f2 == IF Cond("ne", f1) THEN SubFlags(r["r2"], 3) ELSE f1
         f3 == TstFlags(f2, And(r["r2"], 4))
         ldc == Cond("ne", f3)
         r1 == IF ldc THEN ldr1w(r, wr, "r1", "r3") ELSE r
     IN  IF Cond("hi", f2)
         THEN /\ Step("37", 0, r, f2, stk, wr, plds, <<>>, <<>>)
              /\ tier' = "general"
         ELSE /\ Step("36a", 0, r1, f3, stk, wr, plds,
                      IF ldc THEN << <<r["r1"], 4>> >> ELSE <<>>, <<>>)
              /\ tier' = "tiny"
  /\ UNCHANGED pull

L36a ==
  /\ pc = "36a"
  /\ LET s == Store
         f == TstFlags(fl, And(s.r["r2"], 3))
     IN  Step(IF Cond("eq", f) THEN "39" ELSE "38", 0, s.r, f, stk, s.wr, plds,
              <<>>, s.st)
  /\ UNCHANGED <<pull, tier>>

\* a movs that takes the carry from bit 0 as well
MovsLsl31CarryBit0(f, x) ==
  LET v == Lsl(x, 31)
  IN  [f EXCEPT !.n = v < 0, !.z = v = 0, !.c = v < 0]
\* movs r2, r2, lsl #31: N from bit 0, C from bit 1 of the count
MovsLsl31(f, x) ==
  LET v == Lsl(x, 31)
  IN  [f EXCEPT !.n = v < 0, !.z = v = 0, !.c = LslCarry(x, 31)]

L38 ==
  /\ pc = "38"
  /\ LET f == MovsLsl31(fl, r["r2"])
         r0 == [r EXCEPT !["r2"] = Lsl(r["r2"], 31)]
         ldc == Cond("ne", f)
         r1 == IF ldc THEN ldr1b(r0, wr, "r1", "r3") ELSE r0
     IN  Step("38a", 0, r1, f, stk, wr, plds,
              IF ldc THEN << <<r["r1"], 1>> >> ELSE <<>>, <<>>)
  /\ UNCHANGED <<pull, tier>>

L38a ==
  /\ pc = "38a"
  /\ LET s == Store
         ldc == Cond("cs", fl)
         r1 == IF ldc THEN ldr1b(ldr1b(s.r, s.wr, "r1", "ip"), s.wr, "r1", "r3")
               ELSE s.r
     IN  Step("38b", 0, r1, fl, stk, s.wr, plds,
              IF ldc THEN << <<s.r["r1"], 1>>, <<s.r["r1"] + 1, 1>> >> ELSE <<>>,
              s.st)
  /\ UNCHANGED <<pull, tier>>

L38b ==
  /\ pc = "38b"
  /\ LET s == Store
     IN  Step("38c", 0, s.r, fl, stk, s.wr, plds, <<>>, s.st)
  /\ UNCHANGED <<pull, tier>>

L38c ==
  /\ pc = "38c"
  /\ LET s == Store
     IN  Step("39", 0, s.r, fl, stk, s.wr, plds, <<>>, s.st)
  /\ UNCHANGED <<pull, tier>>

L39 ==
  /\ pc = "39"
  /\ exit_no_regs(stk, r)
  /\ UNCHANGED <<wr, pull, tier>>

(* ---- general tier entry: lines 488 - 496, 424 - 429 -------------------------- *)
\* label 5 / 30: with a 32-byte line the .if block at 652 - 658 is not assembled
Label5 == IF L1_CACHE_BYTES = 64 THEN "5" ELSE "31"

L37 ==
  /\ pc = "37"
  /\ LET f == TstFlags(fl, And(r["r3"], 3))
         s1 == PushRegs(stk, r, <<"r4", "lr">>)
         r1 == [r EXCEPT !["r3"] = r["ip"]]
         pl == Append(plds, r["ip"] + L1_CACHE_BYTES)
         r2 == [r1 EXCEPT !["r2"] = r1["r2"] - 32]
         s2 == PushRegs(s1, r2, <<"r5", "r6", "r7", "r8", "r9">>)
         r3 == [r2 EXCEPT !["r8"] = r2["r3"]]
     IN  IF Cond("ne", f)
         THEN Step("33", 0, r1, f, s1, wr, pl, <<>>, <<>>)
         ELSE Step("2", 0, r3, SubFlags(r1["r2"], 32), s2, wr, pl, <<>>, <<>>)
  /\ UNCHANGED <<pull, tier>>

L33 ==
  /\ pc = "33"
  /\ LET a0 == And(r["r0"], 3)
         f0 == TstFlags(fl, a0)
         r1 == [r EXCEPT !["ip"] = a0, !["r2"] = r["r2"] - 4]
         a1 == And(r["r1"], 3)
     IN  IF Cond("ne", f0)
         THEN Step("9", 0, r1, f0, stk, wr, plds, <<>>, <<>>)
         ELSE Step("10", 0, [r1 EXCEPT !["ip"] = a1], TstFlags(f0, a1), stk, wr,
                   plds, <<>>, <<>>)
  /\ UNCHANGED <<pull, tier>>

(* ---- unaligned destination: lines 748 - 760 ----------------------------------- *)
L9 ==
  /\ pc = "9"
  /\ LET r1 == [r EXCEPT !["ip"] = 4 - r["ip"]]
         f == SubFlags(r1["ip"], 2)
         ldc == Cond("gt", f)
         r2 == IF ldc THEN ldr1b(r1, wr, "r1", "r4") ELSE r1
     IN  Step("9a", 0, r2, f, stk, wr, plds,
              IF ldc THEN << <<r["r1"], 1>> >> ELSE <<>>, <<>>)
  /\ UNCHANGED <<pull, tier>>

L9a ==
  /\ pc = "9a"
  /\ LET s == Store
         ldc == Cond("ge", fl)
         r1 == IF ldc THEN ldr1b(s.r, s.wr, "r1", "r4") ELSE s.r
     IN  Step("9b", 0, r1, fl, stk, s.wr, plds,
              IF ldc THEN << <<s.r["r1"], 1>> >> ELSE <<>>, s.st)
  /\ UNCHANGED <<pull, tier>>

L9b ==
  /\ pc = "9b"
  /\ LET s == Store
         r1 == ldr1b(s.r, s.wr, "r1", "lr")
         r2 == [r1 EXCEPT !["r2"] = r1["r2"] - r1["ip"]]
     IN  Step("9c", 0, r2, SubFlags(r1["r2"], r1["ip"]), stk, s.wr, plds,
              << <<s.r["r1"], 1>> >>, s.st)
  /\ UNCHANGED <<pull, tier>>

L9c ==
  /\ pc = "9c"
  /\ LET s == Store
         a1 == And(s.r["r1"], 3)
         f == TstFlags(fl, a1)
     IN  IF Cond("lt", fl)
         THEN Step("8", 0, s.r, fl, stk, s.wr, plds, <<>>, s.st)
         ELSE Step(IF Cond("eq", f) THEN "1" ELSE "10", 0,
                   [s.r EXCEPT !["ip"] = a1], f, stk, s.wr, plds, <<>>, s.st)
  /\ UNCHANGED <<pull, tier>>

(* ---- co-aligned after the prologue: lines 431 - 476 ---------------------------- *)
L1 ==
  /\ pc = "1"
  /\ LET r1 == [r EXCEPT !["r2"] = r["r2"] + 4]
         s1 == PushRegs(stk, r1, <<"r5", "r6", "r7", "r8", "r9">>)
         f == SubFlags(r1["r2"], 32)
         r2 == [r1 EXCEPT !["r8"] = r1["r3"]]
         r3 == [r2 EXCEPT !["r2"] = r2["r2"] - 32]
     IN  IF Cond("lt", f)
         THEN Step(Label5, 0, r2, f, s1, wr, plds, <<>>, <<>>)
         ELSE Step("2", 0, r3, SubFlags(r2["r2"], 32), s1, wr, plds, <<>>, <<>>)
  /\ UNCHANGED <<pull, tier>>

(* ---- preload set-up and bulk loop: lines 562 - 626 ----------------------------- *)
\* a label 2 without the size check of the 64-byte line (as assembled for memcpy)
L2NoLineCheck ==
  /\ pc = "2"
  /\ LET f0 == IF L1_CACHE_BYTES = 64 THEN SubFlags(r["r2"], 32) ELSE fl
         short == FALSE
         r1 == IF L1_CACHE_BYTES = 64
               THEN [r EXCEPT !["r2"] = r["r2"] - 32] ELSE r
         pl == Append(plds, r1["r8"] + 2 * L1_CACHE_BYTES)
         r2 == [r1 EXCEPT !["r9"] = r1["r1"] + PREFETCH_DISTANCE * L1_CACHE_BYTES]
         f1 == SubFlags(r2["r2"], PREFETCH_DISTANCE * L1_CACHE_BYTES)
         r3 == [r2 EXCEPT !["r2"] = r2["r2"] - PREFETCH_DISTANCE * L1_CACHE_BYTES,
                          !["r3"] = Bic(r2["r9"], L1_CACHE_BYTES - 1),
                          !["r8"] = r2["r8"] + 3 * L1_CACHE_BYTES]
         f2 == SubFlags(r3["r8"], r3["r3"])
         r4 == [r3 EXCEPT !["r9"] = r3["r3"] - r3["r1"]]
     IN  IF short
         THEN Step("5", 0, [r EXCEPT !["r2"] = r["r2"] + 32], f0, stk, wr, plds,
                   <<>>, <<>>)
         ELSE IF Cond("lt", f1)
         THEN Step("4", 0, r3, f1, stk, wr, pl, <<>>, <<>>)
         ELSE Step(IF Cond("ge", f2) THEN "3" ELSE "42", 0, r4, f2, stk, wr, pl,
                   <<>>, <<>>)
  /\ UNCHANGED <<pull, tier>>
L2 ==
  /\ pc = "2"
  /\ LET f0 == IF L1_CACHE_BYTES = 64 THEN SubFlags(r["r2"], 32) ELSE fl
         short == L1_CACHE_BYTES = 64 /\ Cond("lt", f0)
         r1 == IF L1_CACHE_BYTES = 64
               THEN [r EXCEPT !["r2"] = r["r2"] - 32] ELSE r
         pl == Append(plds, r1["r8"] + 2 * L1_CACHE_BYTES)
         r2 == [r1 EXCEPT !["r9"] = r1["r1"] + PREFETCH_DISTANCE * L1_CACHE_BYTES]
         f1 == SubFlags(r2["r2"], PREFETCH_DISTANCE * L1_CACHE_BYTES)
         r3 == [r2 EXCEPT !["r2"] = r2["r2"] - PREFETCH_DISTANCE * L1_CACHE_BYTES,
                          !["r3"] = Bic(r2["r9"], L1_CACHE_BYTES - 1),
                          !["r8"] = r2["r8"] + 3 * L1_CACHE_BYTES]
         f2 == SubFlags(r3["r8"], r3["r3"])
         r4 == [r3 EXCEPT !["r9"] = r3["r3"] - r3["r1"]]
     IN  IF short
         THEN Step("5", 0, [r EXCEPT !["r2"] = r["r2"] + 32], f0, stk, wr, plds,
                   <<>>, <<>>)
         ELSE IF Cond("lt", f1)
         THEN Step("4", 0, r3, f1, stk, wr, pl, <<>>, <<>>)
         ELSE Step(IF Cond("ge", f2) THEN "3" ELSE "42", 0, r4, f2, stk, wr, pl,
                   <<>>, <<>>)
  /\ UNCHANGED <<pull, tier>>

\* a catch-up loop that preloads [r8] instead of [r8, #(- L1_CACHE_BYTES)]
L42PldAhead ==
  /\ pc = "42"
  /\ LET r1 == [r EXCEPT !["r8"] = r["r8"] + L1_CACHE_BYTES]
         f == SubFlags(r1["r8"], r1["r3"])
     IN  Step(IF Cond("lt", f) THEN "42" ELSE "3", 0, r1, f, stk, wr,
              Append(plds, r1["r8"]), <<>>, <<>>)
  /\ UNCHANGED <<pull, tier>>
L42 ==
  /\ pc = "42"
  /\ LET r1 == [r EXCEPT !["r8"] = r["r8"] + L1_CACHE_BYTES]
         f == SubFlags(r1["r8"], r1["r3"])
     IN  Step(IF Cond("lt", f) THEN "42" ELSE "3", 0, r1, f, stk, wr,
              Append(plds, r1["r8"] - L1_CACHE_BYTES), <<>>, <<>>)
  /\ UNCHANGED <<pull, tier>>

L3 ==
  /\ pc = "3"
  /\ Step("4", 0, r, fl, stk, wr, Append(plds, r["r1"] + r["r9"]), <<>>, <<>>)
  /\ UNCHANGED <<pull, tier>>

L4 ==
  /\ pc = "4"
  /\ LET r1 == ldmia(r, wr, "r1", Regs8)
         r2 == [r1 EXCEPT !["r2"] = r1["r2"] - L1_CACHE_BYTES]
     IN  Step("4s", 1, r2, SubFlags(r1["r2"], L1_CACHE_BYTES), stk, wr, plds,
              << <<r["r1"], 32>> >>, <<>>)
  /\ UNCHANGED <<pull, tier>>

\* a loop end that corrects the count as the build without preloads does
LoopEndNoPld(rg, f, m, s) ==
  LET f2 == AddFlags(rg["r2"], PREFETCH_DISTANCE * L1_CACHE_BYTES)
      k == L1_CACHE_BYTES
  IN  IF Cond("ge", f) THEN Step("3", 0, rg, f, stk, m, plds, <<>>, s)
      ELSE IF Cond("ge", f2) THEN Step("4", 0, rg, f2, stk, m, plds, <<>>, s)
      ELSE Step(Label5, 0, [rg EXCEPT !["r2"] = rg["r2"] + k],
                AddFlags(rg["r2"], k), stk, m, plds, <<>>, s)
\* lines 607 - 611 / 620 - 624: loop back, or correct the count and leave
LoopEnd(rg, f, m, s) ==
  LET f2 == AddFlags(rg["r2"], PREFETCH_DISTANCE * L1_CACHE_BYTES)
      k == PREFETCH_DISTANCE * L1_CACHE_BYTES + L1_CACHE_BYTES
  IN  IF Cond("ge", f) THEN Step("3", 0, rg, f, stk, m, plds, <<>>, s)
      ELSE IF Cond("ge", f2) THEN Step("4", 0, rg, f2, stk, m, plds, <<>>, s)
      ELSE Step(Label5, 0, [rg EXCEPT !["r2"] = rg["r2"] + k],
                AddFlags(rg["r2"], k), stk, m, plds, <<>>, s)

L4s ==
  /\ pc = "4s"
  /\ LET s == Store
     IN  IF idx < 8 THEN Step("4s", idx + 1, s.r, fl, stk, s.wr, plds, <<>>, s.st)
         ELSE IF L1_CACHE_BYTES = 64
         THEN Step("4b", 0, s.r, fl, stk, s.wr, plds, <<>>, s.st)
         ELSE LoopEnd(s.r, fl, s.wr, s.st)
  /\ UNCHANGED <<pull, tier>>

L4b ==
  /\ pc = "4b"
  /\ Step("4t", 1, ldmia(r, wr, "r1", Regs8), fl, stk, wr, plds,
          << <<r["r1"], 32>> >>, <<>>)
  /\ UNCHANGED <<pull, tier>>

L4t ==
  /\ pc = "4t"
  /\ LET s == Store
     IN  IF idx < 8 THEN Step("4t", idx + 1, s.r, fl, stk, s.wr, plds, <<>>, s.st)
         ELSE LoopEnd(s.r, fl, s.wr, s.st)
  /\ UNCHANGED <<pull, tier>>

(* ---- tail handler: lines 627 - 712 ---------------------------------------------- *)
L5 ==
  /\ pc = "5"
  /\ LET f == TstFlags(fl, And(r["r2"], 32))
     IN  IF Cond("eq", f) THEN Step("31", 0, r, f, stk, wr, plds, <<>>, <<>>)
         ELSE Step("5s", 1, ldmia(r, wr, "r1", Regs8), f, stk, wr, plds,
                   << <<r["r1"], 32>> >>, <<>>)
  /\ UNCHANGED <<pull, tier>>

L5s ==
  /\ pc = "5s"
  /\ LET s == Store
     IN  IF idx < 8 THEN Step("5s", idx + 1, s.r, fl, stk, s.wr, plds, <<>>, s.st)
         ELSE Step("31", 0, s.r, fl, stk, s.wr, plds, <<>>, s.st)
  /\ UNCHANGED <<pull, tier>>

\* addne pc, pc, ip / add pc, pc, ip: pc reads two instructions ahead, which is
\* the nop before the first accessor; ip / 4 further on is accessor number ip / 4
JumpIndex(ip) == ip \div 4

L31 ==
  /\ pc = "31"
  /\ LET a == And(r["r2"], 28)
         f == TstFlags(fl, a)
         r1 == [r EXCEPT !["ip"] = 32 - a]
     IN  IF Cond("ne", f)
         THEN Step("6", JumpIndex(r1["ip"]), r1, f, stk, wr, plds, <<>>, <<>>)
         ELSE Step("7", 0, r1, f, stk, wr, plds, <<>>, <<>>)
  /\ UNCHANGED <<pull, tier>>

L6 ==
  /\ pc = "6"
  /\ LET r1 == ldr1w(r, wr, "r1", TailRegs[idx])
     IN  IF idx < 7
         THEN Step("6", idx + 1, r1, fl, stk, wr, plds, << <<r["r1"], 4>> >>, <<>>)
         ELSE Step("6s", JumpIndex(r1["ip"]), r1, fl, stk, wr, plds,
                   << <<r["r1"], 4>> >>, <<>>)
  /\ UNCHANGED <<pull, tier>>

L6s ==
  /\ pc = "6s"
  /\ LET s == Store
     IN  IF idx < 7 THEN Step("6s", idx + 1, s.r, fl, stk, s.wr, plds, <<>>, s.st)
         ELSE Step("7", 0, s.r, fl, stk, s.wr, plds, <<>>, s.st)
  /\ UNCHANGED <<pull, tier>>

\* a label 7 that goes to the byte tail without the ldmfd of r5 - r9
L7NoPop ==
  /\ pc = "7"
  /\ Step("8", 0, r, fl, stk, wr, plds, <<>>, <<>>)
  /\ UNCHANGED <<pull, tier>>
L7 ==
  /\ pc = "7"
  /\ Len(stk) >= 5
  /\ Step("8", 0, PopRegs(stk, r, <<"r5", "r6", "r7", "r8", "r9">>), fl,
          PopStack(stk, 5), wr, plds, <<>>, <<>>)
  /\ UNCHANGED <<pull, tier>>

L8 ==
  /\ pc = "8"
  /\ LET f == MovsLsl31(fl, r["r2"])
         r0 == [r EXCEPT !["r2"] = Lsl(r["r2"], 31)]
         ldc == Cond("ne", f)
         r1 == IF ldc THEN ldr1b(r0, wr, "r1", "r3") ELSE r0
     IN  Step("8a", 0, r1, f, stk, wr, plds,
              IF ldc THEN << <<r["r1"], 1>> >> ELSE <<>>, <<>>)
  /\ UNCHANGED <<pull, tier>>

L8a ==
  /\ pc = "8a"
  /\ LET s == Store
         ldc == Cond("cs", fl)
         r1 == IF ldc THEN ldr1b(ldr1b(s.r, s.wr, "r1", "r4"), s.wr, "r1", "ip")
               ELSE s.r
     IN  Step("8b", 0, r1, fl, stk, s.wr, plds,
              IF ldc THEN << <<s.r["r1"], 1>>, <<s.r["r1"] + 1, 1>> >> ELSE <<>>,
              s.st)
  /\ UNCHANGED <<pull, tier>>

L8b ==
  /\ pc = "8b"
  /\ LET s == Store
     IN  Step("8c", 0, s.r, fl, stk, s.wr, plds, <<>>, s.st)
  /\ UNCHANGED <<pull, tier>>

L8c ==
  /\ pc = "8c"
  /\ LET s == Store
     IN  Step("8x", 0, s.r, fl, stk, s.wr, plds, <<>>, s.st)
  /\ UNCHANGED <<pull, tier>>

L8x ==
  /\ pc = "8x"
  /\ Len(stk) >= 3
  /\ exit_no_regs(PopStack(stk, 2), PopRegs(stk, r, <<"r4", "lr">>))
  /\ UNCHANGED <<wr, pull, tier>>

(* ---- cross-aligned source: lines 762 - 864 ---------------------------------------- *)
L10 ==
  /\ pc = "10"
  /\ Step("10a", 0, [r EXCEPT !["r1"] = Bic(r["r1"], 3)], SubFlags(r["ip"], 2),
          stk, wr, plds, <<>>, <<>>)
  /\ UNCHANGED <<pull, tier>>

\* a label 10 whose beq and bgt reach each other's instance
ShiftInstanceSwapped(f) ==
  IF Cond("eq", f) THEN 24 ELSE IF Cond("gt", f) THEN 16 ELSE 8
\* the forward_copy_shift instance reached from label 10 (lines 765, 766, 860 - 864)
ShiftInstance(f) ==
  IF Cond("eq", f) THEN 16 ELSE IF Cond("gt", f) THEN 24 ELSE 8

L10a ==
  /\ pc = "10a"
  /\ Step("fcs", 0, ldr1w(r, wr, "r1", "lr"), fl, stk, wr, plds,
          << <<r["r1"], 4>> >>, <<>>)
  /\ pull' = ShiftInstance(fl)
  /\ UNCHANGED tier

\* a merge whose push amount equals its pull amount
ShiftMergeSamePush(a, b, pl) == Orr(Lsr(a, pl), Lsl(b, pl))
\* mov d, a, pull #pl ; orr d, d, b, push #(32 - pl)
ShiftMerge(a, b, pl) == Orr(Lsr(a, pl), Lsl(b, 32 - pl))

\* a forward_copy_shift entry without the blt 13f that skips the loop preloads
LfcsAlwaysPreloads ==
  /\ pc = "fcs"
  /\ LET f0 == SubFlags(r["r2"], 28)
         r1 == [r EXCEPT !["r2"] = r["r2"] - 28]
         s1 == PushRegs(stk, r1, <<"r5", "r6", "r7", "r8", "r9", "r10">>)
         r2 == [r1 EXCEPT !["r10"] = r1["r1"] + PREFETCH_DISTANCE * L1_CACHE_BYTES]
         f1 == SubFlags(r2["r2"], PREFETCH_DISTANCE * L1_CACHE_BYTES)
         r3 == [r2 EXCEPT !["r2"] = r2["r2"] - PREFETCH_DISTANCE * L1_CACHE_BYTES,
                          !["r4"] = Bic(r2["r10"], 31),
                          !["r3"] = r2["r3"] + 2 * L1_CACHE_BYTES]
         f2 == SubFlags(r3["r3"], r3["r4"])
         r4 == [r3 EXCEPT !["r10"] = r3["r4"] - r3["r1"]]
     IN  IF Cond("lt", f0) THEN Step("14", 0, r1, f0, stk, wr, plds, <<>>, <<>>)
         ELSE Step(IF Cond("ge", f2) THEN "12" ELSE "47", 0, r4, f2, s1, wr, plds,
                   <<>>, <<>>)
  /\ UNCHANGED <<pull, tier>>
Lfcs ==
  /\ pc = "fcs"
  /\ LET f0 == SubFlags(r["r2"], 28)
         r1 == [r EXCEPT !["r2"] = r["r2"] - 28]
         s1 == PushRegs(stk, r1, <<"r5", "r6", "r7", "r8", "r9", "r10">>)
         r2 == [r1 EXCEPT !["r10"] = r1["r1"] + PREFETCH_DISTANCE * L1_CACHE_BYTES]
         f1 == SubFlags(r2["r2"], PREFETCH_DISTANCE * L1_CACHE_BYTES)
         r3 == [r2 EXCEPT !["r2"] = r2["r2"] - PREFETCH_DISTANCE * L1_CACHE_BYTES,
                          !["r4"] = Bic(r2["r10"], 31),
                          !["r3"] = r2["r3"] + 2 * L1_CACHE_BYTES]
         f2 == SubFlags(r3["r3"], r3["r4"])
         r4 == [r3 EXCEPT !["r10"] = r3["r4"] - r3["r1"]]
     IN  IF Cond("lt", f0) THEN Step("14", 0, r1, f0, stk, wr, plds, <<>>, <<>>)
         ELSE IF Cond("lt", f1) THEN Step("13", 0, r3, f1, s1, wr, plds, <<>>, <<>>)
         ELSE Step(IF Cond("ge", f2) THEN "12" ELSE "47", 0, r4, f2, s1, wr, plds,
                   <<>>, <<>>)
  /\ UNCHANGED <<pull, tier>>

L47 ==
  /\ pc = "47"
  /\ LET r1 == [r EXCEPT !["r3"] = r["r3"] + L1_CACHE_BYTES]
         f == SubFlags(r1["r3"], r1["r4"])
     IN  Step(IF Cond("lt", f) THEN "47" ELSE "12", 0, r1, f, stk, wr,
              Append(plds, r1["r3"] - L1_CACHE_BYTES), <<>>, <<>>)
  /\ UNCHANGED <<pull, tier>>

L12 ==
  /\ pc = "12"
  /\ Step("13", 0, r, fl, stk, wr, Append(plds, r["r1"] + r["r10"]), <<>>, <<>>)
  /\ UNCHANGED <<pull, tier>>

L13 ==
  /\ pc = "13"
  /\ LET a == ldmia(r, wr, "r1", <<"r4", "r5", "r6", "r7">>)
         b == [a EXCEPT !["r2"] = a["r2"] - 32]
         c == ldmia(b, wr, "r1", <<"r8", "r9", "ip", "lr">>)
         d == [c EXCEPT !["r3"] = ShiftMerge(r["lr"], c["r4"], pull),
                        !["r4"] = ShiftMerge(c["r4"], c["r5"], pull),
                        !["r5"] = ShiftMerge(c["r5"], c["r6"], pull),
                        !["r6"] = ShiftMerge(c["r6"], c["r7"], pull),
                        !["r7"] = ShiftMerge(c["r7"], c["r8"], pull),
                        !["r8"] = ShiftMerge(c["r8"], c["r9"], pull),
                        !["r9"] = ShiftMerge(c["r9"], c["ip"], pull),
                        !["ip"] = ShiftMerge(c["ip"], c["lr"], pull)]
     IN  Step("13s", 1, d, SubFlags(a["r2"], 32), stk, wr, plds,
              << <<r["r1"], 16>>, <<r["r1"] + 16, 16>> >>, <<>>)
  /\ UNCHANGED <<pull, tier>>

L13s ==
  /\ pc = "13s"
  /\ LET s == Store
         f2 == AddFlags(s.r["r2"], PREFETCH_DISTANCE * L1_CACHE_BYTES)
     IN  IF idx < 8 THEN Step("13s", idx + 1, s.r, fl, stk, s.wr, plds, <<>>, s.st)
         ELSE IF Cond("ge", fl) THEN Step("12", 0, s.r, fl, stk, s.wr, plds, <<>>, s.st)
         ELSE IF Cond("ge", f2) THEN Step("13", 0, s.r, f2, stk, s.wr, plds, <<>>, s.st)
         ELSE /\ Len(stk) >= 6
              /\ Step("14", 0,
                      PopRegs(stk, s.r, <<"r5", "r6", "r7", "r8", "r9", "r10">>),
                      f2, PopStack(stk, 6), s.wr, plds, <<>>, s.st)
  /\ UNCHANGED <<pull, tier>>

L14 ==
  /\ pc = "14"
  /\ LET a == And(r["r2"], 28)
         f == TstFlags(fl, a)
     IN  Step(IF Cond("eq", f) THEN "16" ELSE "15", 0, [r EXCEPT !["ip"] = a], f,
              stk, wr, plds, <<>>, <<>>)
  /\ UNCHANGED <<pull, tier>>

L15 ==
  /\ pc = "15"
  /\ LET a == ldr1w(r, wr, "r1", "lr")
         b == [a EXCEPT !["ip"] = a["ip"] - 4,
                        !["r4"] = ShiftMerge(r["lr"], a["lr"], pull)]
     IN  Step("15s", 0, b, SubFlags(a["ip"], 4), stk, wr, plds,
              << <<r["r1"], 4>> >>, <<>>)
  /\ UNCHANGED <<pull, tier>>

\* a word tail that loops with bge instead of bgt
L15sBge ==
  /\ pc = "15s"
  /\ LET s == Store
     IN  Step(IF Cond("ge", fl) THEN "15" ELSE "16", 0, s.r, fl, stk, s.wr, plds,
              <<>>, s.st)
  /\ UNCHANGED <<pull, tier>>
L15s ==
  /\ pc = "15s"
  /\ LET s == Store
     IN  Step(IF Cond("gt", fl) THEN "15" ELSE "16", 0, s.r, fl, stk, s.wr, plds,
              <<>>, s.st)
  /\ UNCHANGED <<pull, tier>>

\* a label 16 that moves the source cursor back by a whole word
L16Back4 ==
  /\ pc = "16"
  /\ Step("8", 0, [r EXCEPT !["r1"] = r["r1"] - 4], SubFlags(r["r1"], 4), stk,
          wr, plds, <<>>, <<>>)
  /\ UNCHANGED <<pull, tier>>
L16 ==
  /\ pc = "16"
  /\ LET k == (32 - pull) \div 8
     IN  Step("8", 0, [r EXCEPT !["r1"] = r["r1"] - k], SubFlags(r["r1"], k), stk,
              wr, plds, <<>>, <<>>)
  /\ UNCHANGED <<pull, tier>>

(* ---- a faulting store -------------------------------------------------------- *)
\* A store to the destination may fault.  The accessors register no fixup
\* entry, so the access is not recovered and the call never returns.
Fault ==
  /\ pc \in StorePcs
  /\ Cond(StoreSite(pc, idx).cc, fl)
  /\ pc' = "killed"
  /\ faultK' = r["r0"] - arg.dest
  /\ ld' = <<>>
  /\ st' = <<>>
  /\ UNCHANGED <<L1_CACHE_BYTES, arg, idx, pull, r, fl, stk, wr, plds, tier, ret>>

(* ---- fixup association of the template: abort= arguments, lines 874 - 880 ---- *)
LoadPcs == {"32", "32b", "36", "38", "38a", "9", "9a", "9b", "4", "4b", "5", "6",
            "8", "8a", "10a", "13", "15"}
AccessPcs == StorePcs \cup LoadPcs
\* a table that sends the shift-merge loop to label 20
AbortOfShiftLoop20(p) ==
  CASE p \in {"32", "32a", "32b", "32c", "36", "36a", "38", "38a", "38b", "38c"} -> 22
    [] p \in {"4", "4s", "4b", "4t", "5", "5s", "6", "6s", "13", "13s"} -> 20
    [] p \in {"8", "8a", "8b", "8c", "9", "9a", "9b", "9c", "10a", "15", "15s"} -> 21
\* the abort label named by the accessors of each step
AbortOf(p) ==
  CASE p \in {"32", "32a", "32b", "32c", "36", "36a", "38", "38a", "38b", "38c"} -> 22
    [] p \in {"4", "4s", "4b", "4t", "5", "5s", "6", "6s"} -> 20
    [] p \in {"8", "8a", "8b", "8c", "9", "9a", "9b", "9c", "10a", "15", "15s"} -> 21
    [] p \in {"13", "13s"} -> 19
\* words popped between an abort label and label 22
AbortPops(label) ==
  CASE label = 19 -> 8 [] label = 20 -> 7 [] label = 21 -> 2 [] label = 22 -> 0
\* copy_abort_preamble entered at a label: the stack and registers at label 22
copy_abort_preamble(label, s, rg) ==
  LET a == CASE label = 19 ->
                  [s |-> PopStack(s, 6),
                   r |-> PopRegs(s, rg, <<"r5", "r6", "r7", "r8", "r9", "r10">>)]
             [] label = 20 ->
                  [s |-> PopStack(s, 5),
                   r |-> PopRegs(s, rg, <<"r5", "r6", "r7", "r8", "r9">>)]
             [] OTHER -> [s |-> s, r |-> rg]
  IN  IF label = 22 THEN a
      ELSE [s |-> PopStack(a.s, 2), r |-> PopRegs(a.s, a.r, <<"r4", "lr">>)]

(* ======================= properties ============================================ *)
Copied(k) ==
  \A i \in 0 .. (k - 1) : Byte(wr, arg.dest + i) = InitByte(arg.src + i)
DestRange == arg.dest .. (arg.dest + arg.n - 1)
SrcRange == arg.src .. (arg.src + arg.n - 1)
Disjoint == arg.dest # arg.src
WordAligned(a) == a % 4 = 0
CalleeSaved == {"r4", "r5", "r6", "r7", "r8", "r9", "r10", "lr"}

\* C1: a completed call on disjoint regions leaves dest[i] = the original
\* src[i] for every i < L, for every alignment, length and cache geometry.
C1_CopyEqualsSource == (pc = "done" /\ Disjoint) => Copied(arg.n)
C1_Witness ==
  /\ pc = "done" /\ Disjoint /\ pull = 8 /\ arg.n >= 96
  /\ L1_CACHE_BYTES = 64 /\ ~WordAligned(arg.dest)

\* C2: every return hands back in r0 the destination pointer passed at entry,
\* although r0 was the advancing write cursor.
C2_ReturnsDest == pc = "done" => ret.r0 = arg.dest
C2_Witness == pc = "done" /\ tier = "general" /\ pull = 16 /\ arg.n > 32

\* C3: a store that faults at offset K makes the call return to its caller with
\* the destination pointer (and a remaining count of at least L - K).
C3_FaultReturnsToCaller == faultK >= 0 => (pc = "done" /\ ret.r0 = arg.dest)

C5_ZeroLengthNoOp ==
  arg.n = 0 => /\ ld = <<>> /\ st = <<>> /\ wr = <<>>
               /\ pc \notin {"37", "32", "38"}
               /\ pc = "done" => ret.r0 = arg.dest
C5_Witness ==
  /\ arg.n = 0 /\ pc = "done" /\ ~WordAligned(arg.dest)
  /\ arg.src % 4 # arg.dest % 4

\* C6: a copy of a region onto itself leaves every byte as it was and
\* returns dest.
C6_SelfCopyUnchanged ==
  (pc = "done" /\ arg.dest = arg.src) =>
    /\ \A a \in DOMAIN wr : wr[a] = InitByte(a)
    /\ DOMAIN wr = DestRange
    /\ ret.r0 = arg.dest
C6_Witness ==
  pc = "done" /\ arg.dest = arg.src /\ arg.n >= 128 /\ ~WordAligned(arg.dest)

\* C7: the bytes written so far are always a prefix [dest, dest + k), and every
\* store is one byte or one word placed exactly at the end of that prefix.
C7_Written == Cardinality(DOMAIN wr)
C7_StoresExtendPrefix ==
  /\ [](DOMAIN wr = arg.dest .. (arg.dest + C7_Written - 1) /\ C7_Written <= arg.n)
  /\ [][IF st' = <<>> THEN wr' = wr
        ELSE /\ C7_Written' - C7_Written \in {1, 4}
             /\ st' = << <<arg.dest + C7_Written, C7_Written' - C7_Written>> >>]_vars
C7_Witness ==
  pc = "8b" /\ st = << <<arg.dest + C7_Written - 1, 1>> >> /\ C7_Written > 64

\* C8: a completed copy has written no byte outside [dest, dest + L), and no
\* byte of a disjoint source.
C8_NoWriteOutside ==
  pc = "done" =>
    /\ DOMAIN wr \subseteq DestRange
    /\ Disjoint => DOMAIN wr \cap SrcRange = {}
C8_Witness ==
  /\ pc = "done" /\ arg.n % 4 = 3 /\ pull = 24 /\ ~WordAligned(arg.dest)
  /\ arg.n > 64

\* C9 as stated: L <= 7 selects the tiny tier whatever the alignment, and
\* L <= 95 with source and destination at the same offset modulo 4 selects the
\* fast-aligned tier.
C9_StatedTier ==
  IF arg.n <= SMALL_SIZE_THRESHOLD THEN "tiny"
  ELSE IF arg.n <= FAST_PATH_SIZE_THRESHOLD /\ arg.src % 4 = arg.dest % 4
  THEN "fast" ELSE "general"
C9_TierByLengthAndCoAlignment == tier # "none" => tier = C9_StatedTier

\* C9 amended: the tiny tier is selected for L <= 3, and for L <= 7 when both
\* pointers are word-aligned; the fast-aligned tier for 7 < L <= 95 when both
\* pointers are word-aligned; the general tier (label 37) otherwise.
C9_BothAligned == WordAligned(arg.src) /\ WordAligned(arg.dest)
C9_CodeTier ==
  IF arg.n <= 3 \/ (arg.n <= SMALL_SIZE_THRESHOLD /\ C9_BothAligned) THEN "tiny"
  ELSE IF arg.n <= FAST_PATH_SIZE_THRESHOLD /\ C9_BothAligned THEN "fast"
  ELSE "general"
C9_TierByLengthAndWordAlignment ==
  /\ pc \notin {"entry", "36"} => tier = C9_CodeTier
  /\ tier = "tiny" => pc \in {"36a", "38", "38a", "38b", "38c", "39", "done", "killed"}
  /\ tier = "fast" =>
       /\ pc \in {"32", "32a", "32b", "32c", "34x", "38", "38a", "38b", "38c", "39",
                  "done", "killed"}
       /\ pc # "done" => stk = <<arg.dest>>
  /\ tier = "general" => pc \notin {"32", "32a", "32b", "32c", "34x", "36a", "38",
                                     "38a", "38b", "38c", "39"}
C9_Witness ==
  /\ pc = "done" /\ tier = "general" /\ arg.n <= SMALL_SIZE_THRESHOLD
  /\ arg.src % 4 = arg.dest % 4

\* C10: past the byte prologue of the general tier the destination cursor is
\* word-aligned; the source cursor is word-aligned and at the logical source
\* position when co-aligned, and is the logical position aligned down (1, 2 or
\* 3 below it) when cross-aligned; every word load and store is word-aligned.
C10_Logical == arg.src + (r["r0"] - arg.dest)
C10_CoAlignedPcs == {"1", "2", "42", "3", "4", "4s", "4b", "4t", "5", "5s", "31",
                     "6", "6s"}
\* the co-aligned steps at which no loaded word is waiting to be stored
C10_BetweenTransfers == {"1", "2", "42", "3", "4", "4b", "5", "31"}
C10_CursorsAligned ==
  /\ pc \in C10_CoAlignedPcs => WordAligned(r["r0"]) /\ WordAligned(r["r1"])
  /\ pc \in C10_BetweenTransfers => r["r1"] = C10_Logical
  /\ pc = "10a" =>
       /\ WordAligned(r["r0"]) /\ WordAligned(r["r1"])
       /\ C10_Logical - r["r1"] \in 1 .. 3
  /\ pc \in {"fcs", "47", "12", "13", "13s", "14", "15", "15s"} =>
       WordAligned(r["r0"]) /\ WordAligned(r["r1"])
  /\ \A i \in 1 .. Len(ld) : ld[i][2] >= 4 => WordAligned(ld[i][1])
  /\ \A i \in 1 .. Len(st) : st[i][2] >= 4 => WordAligned(st[i][1])
C10_Witness ==
  /\ pc = "10a" /\ ~WordAligned(arg.dest) /\ C10_Logical - r["r1"] = 3
  /\ wr # <<>>

\* C11: in the cross-aligned case the instance entered has pull = 8 * o and
\* push = 32 - 8 * o, o being the source offset modulo 4 once the destination is
\* word-aligned; every word the shift-merge loop and the word tail are about to
\* store is (previous aligned source word >> 8 * o) OR (next aligned source word
\* << (32 - 8 * o)), which is the four source bytes at the logical position; and
\* label 16 moves the source cursor back by 4 - o, onto the logical position.
C11_Offset == (arg.src - arg.dest) % 4
C11_ShiftPcs == {"fcs", "47", "12", "13", "13s", "14", "15", "15s", "16"}
C11_Merged ==
  LET base == C10_Logical - C11_Offset
  IN  Orr(Lsr(LoadWord(<<>>, base), 8 * C11_Offset),
          Lsl(LoadWord(<<>>, base + 4), 32 - 8 * C11_Offset))
C11_ShiftMergeBySourceOffset ==
  /\ pc \in C11_ShiftPcs =>
       /\ C11_Offset \in 1 .. 3
       /\ pull = 8 * C11_Offset
       /\ C10_Logical % 4 = C11_Offset
  /\ pc \in {"13s", "15s"} =>
       LET w == r[StoreSite(pc, idx).reg]
       IN  /\ w = C11_Merged
           /\ w = LoadWord(<<>>, C10_Logical)
  /\ pc = "16" => r["r1"] - C10_Logical = 4 - C11_Offset
  /\ (pc = "8" /\ pull # 0) => r["r1"] = C10_Logical
C11_Witness ==
  /\ pc = "15s" /\ pull = 24 /\ r["r4"] = C11_Merged /\ Len(stk) = 3
  /\ Cardinality(DOMAIN wr) > 64 /\ ~WordAligned(arg.dest)

\* C12 as stated: at every prefetch issue and every tier transition r2 equals
\* the original length minus the number of bytes already moved.
C12_Remaining == arg.n - Cardinality(DOMAIN wr)
C12_SuspensionPcs == {"entry", "36", "32", "37", "1", "10", "2", "42", "3", "47",
                      "12", "5", "31", "14", "8"}
C12_CountIsRemaining == pc \in C12_SuspensionPcs => r["r2"] = C12_Remaining

\* C12 amended: at every prefetch issue and every tier transition r2 is the
\* number of bytes still to move less the bias of that point: none at entry, at
\* the dispatch targets and at label 5; 4 at labels 1 and 10; 32 at label 2;
\* (PREFETCH_DISTANCE + 1) lines at the co-aligned loop preloads and 32 plus
\* PREFETCH_DISTANCE lines at the cross-aligned ones; at the word tails only
\* the low five bits, and at the byte tail only the low two bits, are the count.
C12_Bias ==
  CASE pc \in {"entry", "36", "32", "37", "5"} -> 0
    [] pc \in {"1", "10"} -> 4
    [] pc = "2" -> 32
    [] pc \in {"42", "3"} -> (PREFETCH_DISTANCE + 1) * L1_CACHE_BYTES
    [] pc \in {"47", "12"} -> 32 + PREFETCH_DISTANCE * L1_CACHE_BYTES
    [] OTHER -> 0
C12_CountIsBiasedRemaining ==
  /\ pc \in C12_SuspensionPcs \ {"31", "14", "8"} =>
       r["r2"] = C12_Remaining - C12_Bias
  /\ pc \in {"31", "14"} =>
       /\ C12_Remaining \in 0 .. 31
       /\ And(r["r2"], 31) = C12_Remaining
  /\ pc = "8" =>
       /\ C12_Remaining \in 0 .. 3
       /\ And(r["r2"], 3) = C12_Remaining
C12_Witness ==
  /\ pc = "3" /\ Cardinality(DOMAIN wr) >= 2 * L1_CACHE_BYTES
  /\ r["r2"] = C12_Remaining - (PREFETCH_DISTANCE + 1) * L1_CACHE_BYTES
  /\ r["r2"] >= 0

\* C13 as stated: no step before the return moves the source cursor r1 or the
\* destination cursor r0 to a lower address.
C13_CursorsNeverDecrease ==
  [][pc' # "done" => (r'["r0"] >= r["r0"] /\ r'["r1"] >= r["r1"])]_vars

\* C13 amended: before the return r0 never decreases, and r1 never decreases
\* except at label 10, which aligns it down by o = src mod 4 (1 to 3) bytes,
\* and at label 16, which moves it back by 4 - o bytes onto the logical source
\* position.
C13_CursorsDecreaseOnlyAtShiftEnds ==
  [][pc' # "done" =>
       /\ r'["r0"] >= r["r0"]
       /\ pc \notin {"10", "16"} => r'["r1"] >= r["r1"]
       /\ pc = "10" => r["r1"] - r'["r1"] = C11_Offset /\ C11_Offset \in 1 .. 3
       /\ pc = "16" => r["r1"] - r'["r1"] = 4 - C11_Offset]_vars
C13_Witness ==
  /\ pc = "8" /\ pull = 8 /\ ~WordAligned(r["r1"]) /\ r["r1"] = C10_Logical
  /\ Cardinality(DOMAIN wr) > 32

\* C14: the co-aligned bulk loop moves one cache line per iteration and starts
\* an iteration only with a full line remaining; it is left, or skipped, with
\* less than a line remaining, and the tail then moves exactly what remains: a
\* 32-byte block when the line is 64 bytes and 32 or more remain, then
\* remaining & 28 bytes by words, then remaining & 3 bytes singly.
C14_Prologue == (4 - (arg.dest % 4)) % 4
C14_InLine == (Cardinality(DOMAIN wr) - C14_Prologue) % L1_CACHE_BYTES
C15_Distance == PREFETCH_DISTANCE * L1_CACHE_BYTES
C15_Base == Bic(arg.src, L1_CACHE_BYTES - 1)
C16_Ahead == Bic(r["r1"], L1_CACHE_BYTES - 1) + PREFETCH_DISTANCE * L1_CACHE_BYTES
C16_OnePerLine ==
  \A i \in 1 .. Len(plds) : plds[i] = C15_Base + (i - 1) * L1_CACHE_BYTES
C16_OnePreloadPerLineAhead ==
  /\ []C16_OnePerLine
  /\ [][(pc \in {"3", "12"}) => plds' = Append(plds, C16_Ahead)]_vars

\* C16 amended: the claim holds in the co-aligned loop and in the cross-aligned
\* loop with a 32-byte line.  With a 64-byte line the cross-aligned loop issues
\* one preload per 32 bytes read (two per line), at the 32-byte-aligned address
\* PREFETCH_DISTANCE lines ahead of the read cursor.  In every variant the line
\* preloaded is PREFETCH_DISTANCE lines ahead of the line being read, and the
\* steps of the loop body issue no preload.
C16_LineVariant == pull = 0 \/ L1_CACHE_BYTES = 32
C16_Issued == plds'[Len(plds')]
C16_PreloadLeadConstant ==
  /\ [](C16_LineVariant => C16_OnePerLine)
  /\ [][(pc \in {"3", "12"}) =>
         /\ plds' = Append(plds, C16_Issued)
         /\ Bic(C16_Issued, L1_CACHE_BYTES - 1) = C16_Ahead
         /\ C16_LineVariant => C16_Issued = C16_Ahead
         /\ pc = "12" =>
              C16_Issued = Bic(r["r1"], 31) + PREFETCH_DISTANCE * L1_CACHE_BYTES]_vars
  /\ [][(pc \in {"4", "4s", "4b", "4t", "13", "13s"}) => plds' = plds]_vars
C16_Witness ==
  /\ pc = "13" /\ L1_CACHE_BYTES = 64 /\ Len(plds) >= 6
  /\ plds[Len(plds)] - plds[Len(plds) - 1] = 32
  /\ plds[Len(plds)] = Bic(r["r1"], 31) + PREFETCH_DISTANCE * L1_CACHE_BYTES

\* C17: on every return the stack is as at entry, r4 - r10 and lr hold the
\* caller's values and the return goes to the caller's address; until then the
\* stack holds, from the bottom, the destination, then {r4, lr}, then {r5 - r9}
\* or {r5 - r10}, each with the caller's values and each pushed once.
C17_Saved(names) == [i \in 1 .. Len(names) |-> CallerRegs[names[Len(names) + 1 - i]]]
C17_Frames ==
  {<<arg.dest>>,
   <<arg.dest>> \o C17_Saved(<<"r4", "lr">>),
   <<arg.dest>> \o C17_Saved(<<"r4", "lr">>)
     \o C17_Saved(<<"r5", "r6", "r7", "r8", "r9">>),
   <<arg.dest>> \o C17_Saved(<<"r4", "lr">>)
     \o C17_Saved(<<"r5", "r6", "r7", "r8", "r9", "r10">>)}
C17_StackAndRegistersRestored ==
  /\ pc = "done" =>
       /\ stk = <<>>
       /\ \A x \in CalleeSaved : r[x] = CallerRegs[x]
       /\ ret.to = CallerRegs["lr"]
  /\ pc \notin {"entry", "done"} => stk \in C17_Frames
  /\ pc \in {"8", "8a", "8b", "8c", "8x"} => Len(stk) = 3
  /\ pc \in {"38", "38a", "38b", "38c", "39", "34x"} => Len(stk) = 1
C17_Witness ==
  /\ pc = "done" /\ pull = 24 /\ arg.n >= 256 /\ stk = <<>>
  /\ ret.to = CallerRegs["lr"] /\ r["r10"] = CallerRegs["r10"]

\* C18: every load reads only aligned words holding at least one source byte:
\* outside the cross-aligned path the loads are contiguous and stay inside
\* [src, src + L); in the cross-aligned path the word loads are aligned, each
\* word holds a byte of the source, so that at most 3 bytes before src and 3
\* bytes after src + L - 1 are read; the read cursor ends at src + L.
C18_WordsOf(e) ==
  {4 * (e[1] \div 4) + 4 * k : k \in 0 .. (((e[1] % 4) + e[2] - 1) \div 4)}
C18_LoadsWithinSourceWords ==
  /\ \A i \in 1 .. Len(ld) :
       /\ \A w \in C18_WordsOf(ld[i]) : w + 3 >= arg.src /\ w <= arg.src + arg.n - 1
       /\ pull = 0 => ld[i][1] >= arg.src /\ ld[i][1] + ld[i][2] <= arg.src + arg.n
       /\ pull # 0 =>
            /\ ld[i][1] >= arg.src - 3
            /\ ld[i][1] + ld[i][2] <= arg.src + arg.n + 3
            /\ ld[i][2] = 1 =>
                 ld[i][1] >= arg.src /\ ld[i][1] < arg.src + arg.n
       /\ i < Len(ld) => ld[i][1] + ld[i][2] = ld[i + 1][1]
  /\ ld # <<>> => ld[Len(ld)][1] + ld[Len(ld)][2] = r["r1"]
  /\ pc = "done" => r["r1"] = arg.src + arg.n
C18_Witness ==
  /\ pc = "15s" /\ Len(ld) = 1 /\ ld[1][2] = 4
  /\ ld[1][1] <= arg.src + arg.n - 1 /\ ld[1][1] + 3 = arg.src + arg.n + 2

Next ==
  \/ Entry
  \/ L32 \/ L32a \/ L32b \/ L32c \/ L34x
  \/ L36 \/ L36a \/ L38 \/ L38a \/ L38b \/ L38c \/ L39
  \/ L37 \/ L33 \/ L9 \/ L9a \/ L9b \/ L9c \/ L1
  \/ L2 \/ L42 \/ L3 \/ L4 \/ L4s \/ L4b \/ L4t
  \/ L5 \/ L5s \/ L31 \/ L6 \/ L6s \/ L7 \/ L8 \/ L8a \/ L8b \/ L8c \/ L8x
  \/ L10 \/ L10a \/ Lfcs \/ L47 \/ L12 \/ L13 \/ L13s \/ L14 \/ L15 \/ L15s
  \/ L16
  \/ Fault

Spec == Init /\ [][Next]_vars

====
